---- MODULE Spec2Model ----
(***************************************************************************)
(* State-machine model of FLL2025Missions.py: the selector loop (main),    *)
(* the six missions, the motion helpers (setup_drive, drive_cm,            *)
(* run_motor_for_degrees, gyro_turn) and emergency_stop_check, together    *)
(* with their environment: the four hub buttons, the heading sensor and    *)
(* the motors.                                                             *)
(*                                                                         *)
(* Units.  Headings are held in hundredths of a degree, so that            *)
(* the heading steps of the fake clock in test_gyro_turn.py are integers.  *)
(* Distances of drive_cm are held in half centimetres, because             *)
(* mission_2 drives -15.5 cm.                                              *)
(***************************************************************************)
EXTENDS Integers, Sequences, FiniteSets

VARIABLES
    selected,       \* main: selected
    start,          \* the index the selector is followed from (-1: it is not)
    net,            \* next events less previous events since start
    turn_calls,     \* the angles robot.turn was called with (test: turn_calls)
    turn_rate,      \* robot.settings: turn_rate (0: never set)
    pressed,        \* main: pressed (the sample of line 307)
    fn,             \* main: fn, the launched mission (its statements)
    pc,             \* where the program is
    ip,             \* 1-based index of the next statement of fn
    buttons,        \* hub.buttons.pressed(): the buttons held right now
    heading,        \* hub.imu heading value, hundredths of a degree
    gain,           \* the robot's turn gain, tenths (10 = the test's fake)
    elapsed,        \* ms spent in gyro_turn's loop (saturates)
    left,           \* left_motor: commanded speed, 0 = stopped
    right,          \* right_motor: commanded speed, 0 = stopped
    robot,          \* drive base: "stopped" | "straight"
    motor_c,        \* "stopped" (stopped or held) | "running"
    motor_d,        \* "stopped" (stopped or held) | "running"
    light,          \* hub.light colour
    exc,            \* the exception that ended the run: "none" or its message
    outcome,        \* "none" while running, else Completed | Aborted | Failed
    cmds,           \* device commands issued by the latest program step
    done,           \* statements of the running body dispatched so far
    abortOccurred,  \* history: CENTER was down at some point of this run
    abortSeen,      \* history: an abort poll of this run saw CENTER
    evts,           \* history: events produced by the button's press so far
    controller,     \* xbox_controller_drive.main: "off", in its "loop", "closed"
    stdin,          \* lines written to process.stdin and not yet read by the hub
    last_forward,   \* xbox_controller_drive.main: last_forward
    last_turn,      \* xbox_controller_drive.main: last_turn
    stop,           \* the A button as the latest get_drive_values sampled it
    trigger,        \* the left trigger during the latest loop iteration
    written,        \* lines the latest step of the controller program wrote
    axes,           \* the axes 1 and 2 as the latest get_drive_values read them
    lastDrive,      \* history: the last DRIVE line written (NoLine: none yet)
    stopReceived    \* history: the hub script has read a STOP line

vars == <<selected, start, net, turn_calls, turn_rate, pressed, fn, pc, ip,
          buttons, heading, gain, elapsed,
          left, right, robot, motor_c, motor_d, light, exc, outcome,
          cmds, done, abortOccurred, abortSeen, evts,
          controller, stdin, last_forward, last_turn, stop, trigger, written,
          axes, lastDrive, stopReceived>>

remoteVars == <<controller, stdin, last_forward, last_turn, stop, trigger,
                written, axes, lastDrive, stopReceived>>

NoLine == [cmd |-> "NONE", a |-> 0, b |-> 0]

\* The remote control at rest (not in use by FLL2025Missions.py)
RemoteIdle ==
    /\ controller = "off"
    /\ stdin = <<>>
    /\ last_forward = 0
    /\ last_turn = 0
    /\ stop = FALSE
    /\ trigger = FALSE
    /\ written = <<>>
    /\ axes = <<0, 0>>
    /\ lastDrive = NoLine
    /\ stopReceived = FALSE

----------------------------------------------------------------------------
(* Bounds and constants *)

\* The loop clock of gyro_turn saturates here
MaxElapsedMs == 1010

\* The selector is followed this many net steps either way from start
MaxNet == 7

\* Lines written to process.stdin that the hub has not read yet: at most
MaxPipe == 3

\* Turn gains of the robot, in tenths: 10 is the fake clock of
\* test_gyro_turn.py as written (0.2 degrees per degree/second of wheel
\* speed difference and second), 12 a robot that turns a fifth faster (the
\* turn_factor of its third test), 0 a robot that does not rotate at all
\* (stalled wheels).
Gains == {0, 10}
TurnGains == {0, 10, 12}

\* test_gyro_turn.py: settle_tol=2, settle_timeout_ms=1000
SettleTol == 2
SettleTimeoutMs == 1000

\* Degrees to the unit of heading, hundredths of a degree
Deg(d) == d * 100

\* Half centimetres to millimetres: drive_cm, line 58 (distance_cm * 10)
MmOf(cm2) == (cm2 * 10) \div 2

Buttons == {"LEFT", "RIGHT", "CENTER", "BLUETOOTH"}
EventButtons == {"LEFT", "RIGHT", "BLUETOOTH"}

MISSION_COLORS == <<"RED", "ORANGE", "YELLOW", "GREEN", "BLUE", "BLACK">>

Abs(x) == IF x < 0 THEN -x ELSE x

----------------------------------------------------------------------------
(* The statements of the missions *)

SetupDrive == [op |-> "setup", x |-> 0, y |-> 0, z |-> 0]
Drive(cm2, v, a) == [op |-> "drive", x |-> cm2, y |-> v, z |-> a]
Turn(deg, slow, axis) == [op |-> "turn", x |-> deg, y |-> slow, z |-> axis]
Wait(ms) == [op |-> "wait", x |-> ms, y |-> 0, z |-> 0]
MotorC(deg, speed) == [op |-> "motor_c", x |-> deg, y |-> speed, z |-> 1000]
MotorD(deg, speed) == [op |-> "motor_d", x |-> deg, y |-> speed, z |-> 1000]
ResetHeading == [op |-> "reset", x |-> 0, y |-> 0, z |-> 0]

mission_0 ==
    << SetupDrive, Drive(30, 30, 50), Turn(10, 1, 1), Wait(500),
       Drive(110, 100, 50), Turn(-55, 1, 1), Drive(20, 30, 30),
       MotorD(-1000, 1000), MotorC(200, 1000), Drive(-8, 30, 50),
       Turn(40, 0, 1), Drive(-120, 30, 50), Turn(45, 0, 1),
       Drive(-60, 30, 50) >>

mission_1 ==
    << SetupDrive, ResetHeading, Wait(200), Drive(28, 30, 50), Turn(45, 1, 1),
       MotorC(150, 720), Drive(66, 30, 50), MotorC(-120, 100),
       MotorD(-720, 500), MotorC(180, 1440), MotorD(720, 360),
       Drive(-70, 30, 30), Wait(200), Drive(20, 30, 50), Turn(-30, 0, 1),
       Drive(-30, 300, 50), MotorC(-120, 1000), Turn(60, 0, 1),
       Drive(-80, 300, 50) >>

mission_2 ==
    << SetupDrive, ResetHeading, Wait(200), Drive(74, 30, 50),
       MotorC(-180, 750), MotorC(180, 750),
       MotorC(-180, 750), MotorC(180, 750),
       MotorC(-180, 750), MotorC(180, 750),
       Drive(-31, 30, 50), ResetHeading, Wait(200), Turn(90, 1, 1),
       Drive(390, 500, 500) >>

mission_3 ==
    << SetupDrive, Drive(82, 30, 5), Drive(-30, 17, 15), Drive(62, 15, 10),
       Drive(-100, 30, 10) >>

mission_4 ==
    << SetupDrive, Drive(138, 20, 500), Turn(43, 1, 1), Drive(46, 30, 200),
       MotorD(180, 1000), MotorC(150, 300), Wait(1000), MotorC(200, 1000),
       MotorC(-300, 500), Drive(-44, 17, 500), Turn(140, 0, 1),
       Drive(122, 30, 500) >>

mission_5 ==
    << SetupDrive, ResetHeading, Wait(200), Drive(146, 30, 100),
       Turn(-90, 1, 1), Drive(46, 30, 5), Turn(-30, 1, 1), Drive(8, 30, 5),
       MotorD(-600, 1000), Drive(20, 30, 5), MotorD(500, 300),
       Drive(-70, 30, 5), Turn(31, 1, 0), MotorD(-500, 300), Drive(20, 30, 5),
       MotorD(500, 300) >>

MISSIONS == <<mission_0, mission_1, mission_2, mission_3, mission_4, mission_5>>

\* len(MISSIONS)
mission_count == Len(MISSIONS)

----------------------------------------------------------------------------
(* Device commands, as recorded in cmds *)

Cmd(name, a, b) == <<name, a, b>>
Beep(freq, ms) == Cmd("beep", freq, ms)
\* hub.light.on(colour): the command is named by the colour
LightCmd(colour) == Cmd(colour, 0, 0)

\* emergency_stop_check, lines 42-47: what it commands when CENTER is down
StopAll ==
    << Cmd("robot.stop", 0, 0), Cmd("left.stop", 0, 0), Cmd("right.stop", 0, 0),
       Cmd("c.stop", 0, 0), Cmd("d.stop", 0, 0), Beep(200, 300) >>

\* main, lines 322-327: the except branch and the reset after the mission
Handler ==
    << Beep(200, 500), LightCmd(MISSION_COLORS[selected + 1]),
       LightCmd(MISSION_COLORS[selected + 1]) >>

\* main, lines 319-327: the normal end of the mission
Epilogue ==
    << Beep(600, 150), LightCmd(MISSION_COLORS[selected + 1]),
       LightCmd(MISSION_COLORS[selected + 1]) >>

\* The launcher's classification of a run by the exception that ended it
Outcome(e) ==
    IF e = "none" THEN "Completed"
    ELSE IF e = "Emergency stop" THEN "Aborted" ELSE "Failed"

Running == pc \in {"step", "straight", "run_angle", "gyro_poll", "gyro_body"}

\* A gyro_turn without lines 89-90: the reading is compared as it is.
Normalize_None(h) == h

\* gyro_turn, lines 89-90
Normalize(h) == IF h > Deg(180) THEN h - Deg(360) ELSE h

\* gyro_turn, line 92
Reached(h, target) == Abs(h) >= Abs(Deg(target))

\* gyro_turn, lines 78 and 80
TurnSpeedOf(slow) == IF slow = 1 THEN 100 ELSE 400
TurnFactorOf(axis) == IF axis = 1 THEN 1 ELSE 3

\* The heading after wait(ms) with the motors at speeds l and r: the fake
\* clock of test_gyro_turn.py, (l - r) * ms * 0.001 * 0.2 degrees, scaled by
\* the robot's gain.
HeadingAfterWait(h, l, r, ms, g) == h + ((l - r) * ms * g) \div 500

Tick(e) == IF e + 10 > MaxElapsedMs THEN MaxElapsedMs ELSE e + 10

----------------------------------------------------------------------------
(* Initial state: module level code and main, lines 296-303 *)

\* What is left of a run once main has gone on (line 333): nothing.  The
\* heading and the loop clock are only read between the reset of line 74 and
\* the end of gyro_turn, and are held at 0 outside a run.
Init ==
    /\ selected = 0
    /\ start = -1
    /\ net = 0
    /\ turn_calls = <<>>
    /\ turn_rate = 0
    /\ pressed = {}
    /\ fn = <<>>
    /\ pc = "poll"
    /\ ip = 1
    /\ buttons = {}
    /\ heading = 0
    /\ gain \in Gains
    /\ elapsed = 0
    /\ left = 0
    /\ right = 0
    /\ robot = "stopped"
    /\ motor_c = "stopped"
    /\ motor_d = "stopped"
    /\ light = MISSION_COLORS[1]
    /\ exc = "none"
    /\ outcome = "none"
    /\ cmds = << LightCmd(MISSION_COLORS[1]) >>
    /\ done = <<>>
    /\ abortOccurred = FALSE
    /\ abortSeen = FALSE
    /\ evts = [b \in EventButtons |-> 0]
    /\ RemoteIdle

----------------------------------------------------------------------------
(* The environment: the operator's fingers.  evts[b] counts the events the *)
(* press of b in progress has produced; it starts again at 0 when b goes   *)
(* down, and when b goes up unless the sample in use still holds b (only a *)
(* sample that holds b, or b being down, produces an event of b).          *)

Press(b) ==
    /\ pc # "crashed"
    /\ b \notin buttons
    /\ buttons' = buttons \cup {b}
    /\ evts' = IF b \in EventButtons THEN [evts EXCEPT ![b] = 0] ELSE evts
    /\ abortOccurred' = (abortOccurred \/ (b = "CENTER" /\ Running))
    /\ UNCHANGED <<selected, start, net, pressed, fn, pc, ip, heading, gain,
                   elapsed,
                   left, right, robot, motor_c, motor_d, light, exc,
                   outcome, cmds, done, abortSeen>>
    /\ UNCHANGED <<turn_calls, turn_rate>>
    /\ UNCHANGED remoteVars

Release(b) ==
    /\ pc # "crashed"
    /\ b \in buttons
    /\ buttons' = buttons \ {b}
    /\ evts' = IF b \in EventButtons /\ b \notin pressed
               THEN [evts EXCEPT ![b] = 0] ELSE evts
    /\ UNCHANGED <<selected, start, net, pressed, fn, pc, ip, heading, gain,
                   elapsed,
                   left, right, robot, motor_c, motor_d, light, exc,
                   outcome, cmds, done, abortOccurred, abortSeen>>
    /\ UNCHANGED <<turn_calls, turn_rate>>
    /\ UNCHANGED remoteVars

----------------------------------------------------------------------------
(* main: the selector loop *)

Event(b) == [evts EXCEPT ![b] = IF evts[b] >= 2 THEN 2 ELSE evts[b] + 1]

\* show_selection(index): what the hub light shows afterwards
show_selection(index) == MISSION_COLORS[index + 1]

\* Line 306 at the top of the loop with CENTER down: the RuntimeError of
\* emergency_stop_check is raised outside any try and ends the program.
IdleEmergencyStop ==
    /\ pc = "poll"
    /\ "CENTER" \in buttons
    /\ robot' = "stopped" /\ left' = 0 /\ right' = 0
    /\ motor_c' = "stopped" /\ motor_d' = "stopped"
    /\ cmds' = StopAll
    /\ exc' = "Emergency stop"
    /\ pc' = "crashed"
    /\ UNCHANGED <<selected, start, net, pressed, fn, ip, buttons, heading,
                   gain,
                   elapsed, light, outcome, done, abortOccurred,
                   abortSeen, evts>>
    /\ UNCHANGED <<turn_calls, turn_rate>>
    /\ UNCHANGED remoteVars

\* A selector whose RIGHT branch comes before the BLUETOOTH branch.
Launch_AfterSelect ==
    /\ pc = "poll"
    /\ "CENTER" \notin buttons
    /\ "BLUETOOTH" \in buttons
    /\ selected' = IF "RIGHT" \in buttons
                   THEN (selected + 1) % Len(MISSIONS) ELSE selected
    /\ fn' = MISSIONS[selected' + 1]
    /\ ip' = 1
    /\ done' = <<>>
    /\ light' = "WHITE"
    /\ cmds' = << Beep(1000, 200), LightCmd("WHITE") >>
    /\ exc' = "none"
    /\ outcome' = "none"
    /\ abortOccurred' = FALSE
    /\ abortSeen' = FALSE
    /\ evts' = Event("BLUETOOTH")
    /\ pc' = "step"
    /\ UNCHANGED <<start, net, pressed, buttons, heading, gain,
                   elapsed, left,
                   right, robot, motor_c, motor_d>>
    /\ UNCHANGED <<turn_calls, turn_rate>>
    /\ UNCHANGED remoteVars

\* Lines 307-318: BLUETOOTH is in the sample, the selected mission starts.
\* (The sample is not consulted again: line 333 continues the loop.)
Launch ==
    /\ pc = "poll"
    /\ "CENTER" \notin buttons
    /\ "BLUETOOTH" \in buttons
    /\ fn' = MISSIONS[selected + 1]
    /\ ip' = 1
    /\ done' = <<>>
    /\ light' = "WHITE"
    /\ cmds' = << Beep(1000, 200), LightCmd("WHITE") >>
    /\ exc' = "none"
    /\ outcome' = "none"
    /\ abortOccurred' = FALSE
    /\ abortSeen' = FALSE
    /\ evts' = Event("BLUETOOTH")
    /\ pc' = "step"
    /\ UNCHANGED <<selected, start, net, pressed, buttons, heading, gain,
                   elapsed, left,
                   right, robot, motor_c, motor_d>>
    /\ UNCHANGED <<turn_calls, turn_rate>>
    /\ UNCHANGED remoteVars

\* A selector whose RIGHT branch stays at the last mission.
PollSelect_Clamp ==
    /\ pc = "poll"
    /\ "CENTER" \notin buttons
    /\ "BLUETOOTH" \notin buttons
    /\ pressed' = buttons
    /\ IF "RIGHT" \in buttons
       THEN /\ start >= 0 => net < MaxNet
            /\ net' = IF start >= 0 THEN net + 1 ELSE net
            /\ UNCHANGED start
            /\ selected' = IF selected + 1 < Len(MISSIONS)
                           THEN selected + 1 ELSE selected
            /\ light' = show_selection(selected')
            /\ cmds' = << LightCmd(show_selection(selected')) >>
            /\ evts' = Event("RIGHT")
            /\ pc' = "right_release"
       ELSE /\ pc' = "left_check"
            /\ cmds' = <<>>
            /\ UNCHANGED <<selected, start, net, light, evts>>
    /\ UNCHANGED <<fn, ip, buttons, heading, gain, elapsed, left, right,
                   robot, motor_c, motor_d, exc, outcome, done,
                   abortOccurred, abortSeen>>
    /\ UNCHANGED <<turn_calls, turn_rate>>
    /\ UNCHANGED remoteVars

\* Lines 307, 336-340: no BLUETOOTH in the sample; RIGHT selects the next.
PollSelect ==
    /\ pc = "poll"
    /\ "CENTER" \notin buttons
    /\ "BLUETOOTH" \notin buttons
    /\ pressed' = buttons
    /\ IF "RIGHT" \in buttons
       THEN /\ start >= 0 => net < MaxNet
            /\ net' = IF start >= 0 THEN net + 1 ELSE net
            /\ UNCHANGED start
            /\ selected' = (selected + 1) % Len(MISSIONS)
            /\ light' = show_selection(selected')
            /\ cmds' = << LightCmd(show_selection(selected')) >>
            /\ evts' = Event("RIGHT")
            /\ pc' = "right_release"
       ELSE /\ pc' = "left_check"
            /\ cmds' = <<>>
            /\ UNCHANGED <<selected, start, net, light, evts>>
    /\ UNCHANGED <<fn, ip, buttons, heading, gain, elapsed, left, right,
                   robot, motor_c, motor_d, exc, outcome, done,
                   abortOccurred, abortSeen>>
    /\ UNCHANGED <<turn_calls, turn_rate>>
    /\ UNCHANGED remoteVars

\* Lines 339-340: the loop leaves once RIGHT is up.
RightRelease ==
    /\ pc = "right_release"
    /\ "RIGHT" \notin buttons
    /\ pc' = "left_check"
    /\ cmds' = <<>>
    /\ UNCHANGED <<selected, start, net, pressed, fn, ip, buttons, heading,
                   gain,
                   elapsed, left, right, robot, motor_c, motor_d,
                   light, exc, outcome, done, abortOccurred, abortSeen, evts>>
    /\ UNCHANGED <<turn_calls, turn_rate>>
    /\ UNCHANGED remoteVars

\* A selector whose LEFT branch stays at the first mission.
LeftCheck_Clamp ==
    /\ pc = "left_check"
    /\ IF "LEFT" \in pressed
       THEN /\ start >= 0 => net > -MaxNet
            /\ net' = IF start >= 0 THEN net - 1 ELSE net
            /\ UNCHANGED start
            /\ selected' = IF selected > 0 THEN selected - 1 ELSE selected
            /\ light' = show_selection(selected')
            /\ cmds' = << LightCmd(show_selection(selected')) >>
            /\ evts' = Event("LEFT")
            /\ pc' = "left_release"
       ELSE /\ pc' = "poll"
            /\ cmds' = <<>>
            /\ UNCHANGED <<selected, start, net, light, evts>>
    /\ pressed' = {}
    /\ UNCHANGED <<fn, ip, buttons, heading, gain, elapsed,
                   left, right, robot, motor_c, motor_d, exc,
                   outcome, done, abortOccurred, abortSeen>>
    /\ UNCHANGED <<turn_calls, turn_rate>>
    /\ UNCHANGED remoteVars

\* Lines 343-349: LEFT is looked up in the sample of line 307, which is
\* not consulted afterwards.
LeftCheck ==
    /\ pc = "left_check"
    /\ IF "LEFT" \in pressed
       THEN /\ start >= 0 => net > -MaxNet
            /\ net' = IF start >= 0 THEN net - 1 ELSE net
            /\ UNCHANGED start
            /\ selected' = (selected - 1) % Len(MISSIONS)
            /\ light' = show_selection(selected')
            /\ cmds' = << LightCmd(show_selection(selected')) >>
            /\ evts' = Event("LEFT")
            /\ pc' = "left_release"
       ELSE /\ pc' = "poll"
            /\ cmds' = <<>>
            /\ UNCHANGED <<selected, start, net, light, evts>>
    /\ pressed' = {}
    /\ UNCHANGED <<fn, ip, buttons, heading, gain, elapsed,
                   left, right, robot, motor_c, motor_d, exc,
                   outcome, done, abortOccurred, abortSeen>>
    /\ UNCHANGED <<turn_calls, turn_rate>>
    /\ UNCHANGED remoteVars

\* Lines 346-349
LeftRelease ==
    /\ pc = "left_release"
    /\ "LEFT" \notin buttons
    /\ pc' = "poll"
    /\ cmds' = <<>>
    /\ UNCHANGED <<selected, start, net, pressed, fn, ip, buttons, heading,
                   gain,
                   elapsed, left, right, robot, motor_c, motor_d,
                   light, exc, outcome, done, abortOccurred, abortSeen, evts>>
    /\ UNCHANGED <<turn_calls, turn_rate>>
    /\ UNCHANGED remoteVars

\* A launcher without lines 332-333: the loop continues without waiting
\* for BLUETOOTH to go up.
BtRelease_NoWait ==
    /\ pc = "bt_release"
    /\ pc' = "poll"
    /\ cmds' = <<>>
    /\ fn' = <<>>
    /\ ip' = 1
    /\ done' = <<>>
    /\ exc' = "none"
    /\ outcome' = "none"
    /\ abortOccurred' = FALSE
    /\ abortSeen' = FALSE
    /\ UNCHANGED <<selected, start, net, pressed, buttons, heading, gain,
                   elapsed, left,
                   right, robot, motor_c, motor_d, light, evts>>
    /\ UNCHANGED <<turn_calls, turn_rate>>
    /\ UNCHANGED remoteVars

\* Lines 330-333: once BLUETOOTH is up the loop continues; the finished run
\* leaves nothing behind but the state of the devices.
BtRelease ==
    /\ pc = "bt_release"
    /\ "BLUETOOTH" \notin buttons
    /\ pc' = "poll"
    /\ cmds' = <<>>
    /\ fn' = <<>>
    /\ ip' = 1
    /\ done' = <<>>
    /\ exc' = "none"
    /\ outcome' = "none"
    /\ abortOccurred' = FALSE
    /\ abortSeen' = FALSE
    /\ UNCHANGED <<selected, start, net, pressed, buttons, heading, gain,
                   elapsed, left,
                   right, robot, motor_c, motor_d, light, evts>>
    /\ UNCHANGED <<turn_calls, turn_rate>>
    /\ UNCHANGED remoteVars

----------------------------------------------------------------------------
(* The running mission: main, lines 317-327, and the helpers it calls *)

Stmt == fn[ip]
AtStmt(op) == pc = "step" /\ ip <= Len(fn) /\ Stmt.op = op

\* A launcher whose except branch (line 320) catches the emergency stop only;
\* any other exception ends the program.
RaiseToMain_Narrow(msg, issued) ==
    /\ exc' = msg
    /\ heading' = 0
    /\ elapsed' = 0
    /\ IF msg = "Emergency stop"
       THEN /\ outcome' = Outcome(msg)
            /\ cmds' = issued \o Handler
            /\ light' = show_selection(selected)
            /\ pc' = "bt_release"
       ELSE /\ cmds' = issued
            /\ pc' = "crashed"
            /\ UNCHANGED <<outcome, light>>

\* An exception leaves the mission and reaches main's except branch
\* (lines 320-327): the run ends, the light shows the selection again.
RaiseToMain(msg, issued) ==
    /\ exc' = msg
    /\ outcome' = Outcome(msg)
    /\ cmds' = issued \o Handler
    /\ light' = show_selection(selected)
    /\ heading' = 0
    /\ elapsed' = 0
    /\ pc' = "bt_release"

\* setup_drive, lines 50-54
StepSetup ==
    /\ AtStmt("setup")
    /\ robot' = "stopped"
    /\ cmds' = << Cmd("robot.stop", 0, 0), Cmd("robot.settings", 300, 300),
                  Beep(900, 80) >>
    /\ done' = Append(done, ip)
    /\ ip' = ip + 1
    /\ UNCHANGED <<selected, start, net, pressed, fn, pc, buttons, heading,
                   gain,
                   elapsed, left, right, motor_c, motor_d, light, exc, outcome,
                   abortOccurred, abortSeen, evts>>
    /\ UNCHANGED <<turn_calls, turn_rate>>
    /\ UNCHANGED remoteVars

\* wait(ms) between two moves of a mission
StepWait ==
    /\ AtStmt("wait")
    /\ cmds' = <<>>
    /\ done' = Append(done, ip)
    /\ ip' = ip + 1
    /\ UNCHANGED <<selected, start, net, pressed, fn, pc, buttons, heading,
                   gain,
                   elapsed, left, right, robot, motor_c, motor_d,
                   light, exc, outcome, abortOccurred, abortSeen, evts>>
    /\ UNCHANGED <<turn_calls, turn_rate>>
    /\ UNCHANGED remoteVars

\* hub.imu.reset_heading(0) in a mission
StepReset ==
    /\ AtStmt("reset")
    /\ heading' = 0
    /\ cmds' = << Cmd("imu.reset_heading", 0, 0) >>
    /\ done' = Append(done, ip)
    /\ ip' = ip + 1
    /\ UNCHANGED <<selected, start, net, pressed, fn, pc, buttons, gain,
                   elapsed,
                   left, right, robot, motor_c, motor_d, light, exc,
                   outcome, abortOccurred, abortSeen, evts>>
    /\ UNCHANGED <<turn_calls, turn_rate>>
    /\ UNCHANGED remoteVars

\* A drive_cm without line 58: robot.straight is given the centimetres.
DriveBegin_Cm ==
    /\ AtStmt("drive")
    /\ LET distance_mm == MmOf(Stmt.x)
           speed_mm_s == Stmt.y * 10
           accel_mm_s2 == Stmt.z * 10
       IN cmds' = << Cmd("robot.settings", speed_mm_s, accel_mm_s2),
                     Cmd("robot.straight", Stmt.x \div 2, 0) >>
    /\ robot' = "straight"
    /\ done' = Append(done, ip)
    /\ pc' = "straight"
    /\ UNCHANGED <<selected, start, net, pressed, fn, ip, buttons, heading,
                   gain,
                   elapsed, left, right, motor_c, motor_d, light, exc, outcome,
                   abortOccurred, abortSeen, evts>>
    /\ UNCHANGED <<turn_calls, turn_rate>>
    /\ UNCHANGED remoteVars

\* drive_cm, lines 58-63: the unit conversion, the settings and the call of
\* robot.straight, which blocks.
DriveBegin ==
    /\ AtStmt("drive")
    /\ LET distance_mm == MmOf(Stmt.x)
           speed_mm_s == Stmt.y * 10
           accel_mm_s2 == Stmt.z * 10
       IN cmds' = << Cmd("robot.settings", speed_mm_s, accel_mm_s2),
                     Cmd("robot.straight", distance_mm, 0) >>
    /\ robot' = "straight"
    /\ done' = Append(done, ip)
    /\ pc' = "straight"
    /\ UNCHANGED <<selected, start, net, pressed, fn, ip, buttons, heading,
                   gain,
                   elapsed, left, right, motor_c, motor_d, light, exc, outcome,
                   abortOccurred, abortSeen, evts>>
    /\ UNCHANGED <<turn_calls, turn_rate>>
    /\ UNCHANGED remoteVars

\* A drive_cm that swallows: it notes the failure of robot.straight and
\* returns, so the mission goes on with its next statement.
DriveEnd_Swallow ==
    /\ pc = "straight"
    /\ \E fails \in BOOLEAN :
        /\ exc' = IF fails THEN "drive base failure" ELSE exc
        /\ robot' = IF fails THEN robot ELSE "stopped"
        /\ cmds' = IF fails THEN <<>> ELSE << Cmd("robot.stop", 0, 0) >>
    /\ ip' = ip + 1
    /\ pc' = "step"
    /\ UNCHANGED <<selected, start, net, pressed, fn, buttons, gain, left,
                   right, motor_c,
                   motor_d, done, abortOccurred, abortSeen, evts, light,
                   outcome, heading, elapsed>>
    /\ UNCHANGED <<turn_calls, turn_rate>>
    /\ UNCHANGED remoteVars

\* drive_cm, lines 63-64: robot.straight returns and robot.stop() follows, or
\* robot.straight raises and drive_cm is left at once.
DriveEnd ==
    /\ pc = "straight"
    /\ \E fails \in BOOLEAN :
        IF fails
        THEN /\ RaiseToMain("drive base failure", <<>>)
             /\ UNCHANGED <<robot, ip>>
        ELSE /\ robot' = "stopped"
             /\ cmds' = << Cmd("robot.stop", 0, 0) >>
             /\ ip' = ip + 1
             /\ pc' = "step"
             /\ UNCHANGED <<light, exc, outcome, heading, elapsed>>
    /\ UNCHANGED <<selected, start, net, pressed, fn, buttons, gain,
                   left, right, motor_c, motor_d, done,
                   abortOccurred, abortSeen, evts>>
    /\ UNCHANGED <<turn_calls, turn_rate>>
    /\ UNCHANGED remoteVars

\* run_motor_for_degrees, line 69: m.run_angle(speed, degrees, then=HOLD,
\* wait=True) starts.
MotorBegin ==
    /\ \/ AtStmt("motor_c") /\ motor_c' = "running" /\ UNCHANGED motor_d
          /\ cmds' = << Cmd("c.run_angle", Stmt.y, Stmt.x) >>
       \/ AtStmt("motor_d") /\ motor_d' = "running" /\ UNCHANGED motor_c
          /\ cmds' = << Cmd("d.run_angle", Stmt.y, Stmt.x) >>
    /\ done' = Append(done, ip)
    /\ pc' = "run_angle"
    /\ UNCHANGED <<selected, start, net, pressed, fn, ip, buttons, heading,
                   gain,
                   elapsed, left, right, robot, light, exc, outcome,
                   abortOccurred, abortSeen, evts>>
    /\ UNCHANGED <<turn_calls, turn_rate>>
    /\ UNCHANGED remoteVars

\* run_motor_for_degrees, line 69: run_angle returns with the motor held
\* (then=Stop.HOLD: no longer running), or raises.
MotorEnd ==
    /\ pc = "run_angle"
    /\ \E fails \in BOOLEAN :
        IF fails
        THEN /\ RaiseToMain("motor failure", <<>>)
             /\ UNCHANGED <<motor_c, motor_d, ip>>
        ELSE /\ motor_c' = IF Stmt.op = "motor_c" THEN "stopped" ELSE motor_c
             /\ motor_d' = IF Stmt.op = "motor_d" THEN "stopped" ELSE motor_d
             /\ cmds' = <<>>
             /\ ip' = ip + 1
             /\ pc' = "step"
             /\ UNCHANGED <<light, exc, outcome, heading, elapsed>>
    /\ UNCHANGED <<selected, start, net, pressed, fn, buttons, gain,
                   left, right, robot, done, abortOccurred,
                   abortSeen, evts>>
    /\ UNCHANGED <<turn_calls, turn_rate>>
    /\ UNCHANGED remoteVars

\* main, lines 318-327: fn() returns normally.
Finish ==
    /\ pc = "step"
    /\ ip > Len(fn)
    /\ outcome' = Outcome(exc)
    /\ cmds' = Epilogue
    /\ light' = show_selection(selected)
    /\ heading' = 0
    /\ elapsed' = 0
    /\ pc' = "bt_release"
    /\ UNCHANGED <<selected, start, net, pressed, fn, ip, buttons, gain,
                   left, right, robot, motor_c, motor_d,
                   exc, done, abortOccurred, abortSeen, evts>>
    /\ UNCHANGED <<turn_calls, turn_rate>>
    /\ UNCHANGED remoteVars

----------------------------------------------------------------------------
(* gyro_turn *)

\* Lines 74-80: the heading is reset, the loop is entered.
GyroStart ==
    /\ AtStmt("turn")
    /\ heading' = 0
    /\ elapsed' = 0
    /\ cmds' = << Cmd("imu.reset_heading", 0, 0) >>
    /\ done' = Append(done, ip)
    /\ pc' = "gyro_poll"
    /\ UNCHANGED <<selected, start, net, pressed, fn, ip, buttons, gain,
                   left, right,
                   robot, motor_c, motor_d, light, exc, outcome,
                   abortOccurred, abortSeen, evts>>
    /\ UNCHANGED <<turn_calls, turn_rate>>
    /\ UNCHANGED remoteVars

\* An emergency_stop_check without line 48: it stops and beeps but does not
\* raise, so gyro_turn goes on.
GyroPoll_NoRaise ==
    /\ pc = "gyro_poll"
    /\ IF "CENTER" \in buttons
       THEN /\ robot' = "stopped" /\ left' = 0 /\ right' = 0
            /\ motor_c' = "stopped" /\ motor_d' = "stopped"
            /\ abortSeen' = TRUE
            /\ cmds' = StopAll
       ELSE /\ cmds' = <<>>
            /\ UNCHANGED <<robot, left, right, motor_c, motor_d, abortSeen>>
    /\ pc' = "gyro_body"
    /\ UNCHANGED <<selected, start, net, pressed, fn, ip, buttons, gain, done,
                   abortOccurred, evts, exc, outcome, light, heading, elapsed>>
    /\ UNCHANGED <<turn_calls, turn_rate>>
    /\ UNCHANGED remoteVars

\* An emergency_stop_check without the beep of line 47.
GyroPoll_NoBeep ==
    /\ pc = "gyro_poll"
    /\ IF "CENTER" \in buttons
       THEN /\ robot' = "stopped" /\ left' = 0 /\ right' = 0
            /\ motor_c' = "stopped" /\ motor_d' = "stopped"
            /\ abortSeen' = TRUE
            /\ RaiseToMain("Emergency stop", SubSeq(StopAll, 1, 5))
       ELSE /\ pc' = "gyro_body"
            /\ cmds' = <<>>
            /\ UNCHANGED <<robot, left, right, motor_c, motor_d, abortSeen,
                           exc, outcome, light, heading, elapsed>>
    /\ UNCHANGED <<selected, start, net, pressed, fn, ip, buttons, gain,
                   done, abortOccurred, evts>>
    /\ UNCHANGED <<turn_calls, turn_rate>>
    /\ UNCHANGED remoteVars

\* Line 85: emergency_stop_check() inside the loop.
GyroPoll ==
    /\ pc = "gyro_poll"
    /\ IF "CENTER" \in buttons
       THEN /\ robot' = "stopped" /\ left' = 0 /\ right' = 0
            /\ motor_c' = "stopped" /\ motor_d' = "stopped"
            /\ abortSeen' = TRUE
            /\ RaiseToMain("Emergency stop", StopAll)
       ELSE /\ pc' = "gyro_body"
            /\ cmds' = <<>>
            /\ UNCHANGED <<robot, left, right, motor_c, motor_d, abortSeen,
                           exc, outcome, light, heading, elapsed>>
    /\ UNCHANGED <<selected, start, net, pressed, fn, ip, buttons, gain,
                   done, abortOccurred, evts>>
    /\ UNCHANGED <<turn_calls, turn_rate>>
    /\ UNCHANGED remoteVars

\* Lines 95-100: the speeds the two motors are run at
LeftSpeed(target, slow, axis) ==
    IF target > 0 THEN -TurnSpeedOf(slow)
    ELSE TurnFactorOf(axis) * TurnSpeedOf(slow)

RightSpeed(target, slow, axis) ==
    IF target > 0 THEN TurnFactorOf(axis) * TurnSpeedOf(slow)
    ELSE -TurnSpeedOf(slow)

\* A gyro_turn without lines 104-105: the loop is left and the motors are
\* not stopped.
GyroBody_NoStop ==
    /\ pc = "gyro_body"
    /\ LET target == Stmt.x
           h == Normalize(heading)
           l == LeftSpeed(Stmt.x, Stmt.y, Stmt.z)
           r == RightSpeed(Stmt.x, Stmt.y, Stmt.z)
       IN IF Reached(h, target)
          THEN /\ UNCHANGED <<left, right>>
               /\ cmds' = << Cmd("imu.heading", 0, 0) >>
               /\ ip' = ip + 1
               /\ pc' = "step"
               /\ elapsed' = 0
               /\ UNCHANGED <<heading, exc, outcome, light>>
          ELSE \E fails \in {"none", "left", "right"} :
               \/ /\ fails = "none"
                  /\ left' = l /\ right' = r
                  /\ cmds' = << Cmd("imu.heading", 0, 0), Cmd("left.run", l, 0),
                                Cmd("right.run", r, 0) >>
                  /\ heading' = HeadingAfterWait(heading, l, r, 10, gain)
                  /\ elapsed' = Tick(elapsed)
                  /\ pc' = "gyro_poll"
                  /\ UNCHANGED <<ip, exc, outcome, light>>
               \/ /\ fails = "left"
                  /\ RaiseToMain("motor failure", << Cmd("imu.heading", 0, 0) >>)
                  /\ UNCHANGED <<left, right, ip>>
               \/ /\ fails = "right"
                  /\ left' = l
                  /\ RaiseToMain("motor failure",
                                 << Cmd("imu.heading", 0, 0), Cmd("left.run", l, 0) >>)
                  /\ UNCHANGED <<right, ip>>
    /\ UNCHANGED <<selected, start, net, pressed, fn, buttons, gain, robot,
                   motor_c, motor_d, done, abortOccurred, abortSeen, evts>>
    /\ UNCHANGED <<turn_calls, turn_rate>>
    /\ UNCHANGED remoteVars

\* Lines 86-106: the heading is read and compared; either the loop is left
\* and both motors are stopped, or both motors are run and wait(10) passes.
\* A motor whose run() raises ends gyro_turn there.
GyroBody ==
    /\ pc = "gyro_body"
    /\ LET target == Stmt.x
           h == Normalize(heading)
           l == LeftSpeed(Stmt.x, Stmt.y, Stmt.z)
           r == RightSpeed(Stmt.x, Stmt.y, Stmt.z)
       IN IF Reached(h, target)
          THEN /\ left' = 0 /\ right' = 0
               /\ cmds' = << Cmd("imu.heading", 0, 0), Cmd("left.stop", 0, 0),
                             Cmd("right.stop", 0, 0) >>
               /\ ip' = ip + 1
               /\ pc' = "step"
               /\ elapsed' = 0
               /\ UNCHANGED <<heading, exc, outcome, light>>
          ELSE \E fails \in {"none", "left", "right"} :
               \/ /\ fails = "none"
                  /\ left' = l /\ right' = r
                  /\ cmds' = << Cmd("imu.heading", 0, 0), Cmd("left.run", l, 0),
                                Cmd("right.run", r, 0) >>
                  /\ heading' = HeadingAfterWait(heading, l, r, 10, gain)
                  /\ elapsed' = Tick(elapsed)
                  /\ pc' = "gyro_poll"
                  /\ UNCHANGED <<ip, exc, outcome, light>>
               \/ /\ fails = "left"
                  /\ RaiseToMain("motor failure", << Cmd("imu.heading", 0, 0) >>)
                  /\ UNCHANGED <<left, right, ip>>
               \/ /\ fails = "right"
                  /\ left' = l
                  /\ RaiseToMain("motor failure",
                                 << Cmd("imu.heading", 0, 0), Cmd("left.run", l, 0) >>)
                  /\ UNCHANGED <<right, ip>>
    /\ UNCHANGED <<selected, start, net, pressed, fn, buttons, gain, robot,
                   motor_c, motor_d, done, abortOccurred, abortSeen, evts>>
    /\ UNCHANGED <<turn_calls, turn_rate>>
    /\ UNCHANGED remoteVars

----------------------------------------------------------------------------
(* The program with its environment *)

Next ==
    \/ \E b \in Buttons : Press(b)
    \/ \E b \in Buttons : Release(b)
    \/ IdleEmergencyStop
    \/ Launch
    \/ PollSelect
    \/ RightRelease
    \/ LeftCheck
    \/ LeftRelease
    \/ BtRelease
    \/ StepSetup
    \/ StepWait
    \/ StepReset
    \/ DriveBegin
    \/ DriveEnd
    \/ MotorBegin
    \/ MotorEnd
    \/ GyroStart
    \/ GyroPoll
    \/ GyroBody
    \/ Finish

Spec == Init /\ [][Next]_vars

----------------------------------------------------------------------------
(* gyro_turn on its own: one call, as test_gyro_turn.py makes it, with every *)
(* target the missions use, every mode and every gain.                       *)

Range(seq) == {seq[i] : i \in 1..Len(seq)}

Targets ==
    {st.x : st \in {t \in UNION {Range(MISSIONS[m]) : m \in 1..Len(MISSIONS)} :
                        t.op = "turn"}}

\* The targets gyro_turn is called with on its own: those of the missions
\* and a turn by nothing
TurnTargets == Targets \cup {0}

InitTurn ==
    /\ selected = 0
    /\ start = -1
    /\ net = 0
    /\ turn_calls = <<>>
    /\ turn_rate = 0
    /\ pressed = {}
    /\ \E t \in TurnTargets, slow \in {0, 1}, axis \in {0, 1} :
           fn = << Turn(t, slow, axis) >>
    /\ pc = "step"
    /\ ip = 1
    /\ buttons = {}
    /\ heading = 0
    /\ gain \in TurnGains
    /\ elapsed = 0
    /\ left = 0
    /\ right = 0
    /\ robot = "stopped"
    /\ motor_c = "stopped"
    /\ motor_d = "stopped"
    /\ light = "WHITE"
    /\ exc = "none"
    /\ outcome = "none"
    /\ cmds = <<>>
    /\ done = <<>>
    /\ abortOccurred = FALSE
    /\ abortSeen = FALSE
    /\ evts = [b \in EventButtons |-> 0]
    /\ RemoteIdle

NextTurn ==
    \/ Press("CENTER")
    \/ Release("CENTER")
    \/ GyroStart
    \/ GyroPoll
    \/ GyroBody
    \/ Finish

SpecTurn == InitTurn /\ [][NextTurn]_vars

\* gyro_turn has returned normally (SpecTurn: the body is the one call)
Returned == pc = "step" /\ Len(fn) = 1 /\ ip = 2

\* gyro_turn with a heading sensor that may report any reading: values
\* hub.imu.heading() can return, in hundredths of a degree, negative ones and
\* ones beyond a full revolution among them.
Readings == {-20000, 18100, 35900, 60000}

\* Between two iterations of the loop (wait(10), line 102) the sensor comes
\* to report r.
SensorJump ==
    /\ pc = "gyro_poll"
    /\ \E r \in Readings : heading' = r
    /\ cmds' = <<>>
    /\ UNCHANGED <<selected, start, net, turn_calls, turn_rate, pressed, fn,
                   pc, ip, buttons, gain, elapsed, left, right, robot,
                   motor_c, motor_d, light, exc, outcome, done,
                   abortOccurred, abortSeen, evts>>
    /\ UNCHANGED remoteVars

NextReading ==
    \/ GyroStart
    \/ GyroPoll
    \/ GyroBody
    \/ Finish
    \/ SensorJump

SpecReading == InitTurn /\ [][NextReading]_vars

----------------------------------------------------------------------------
(* The selector on its own: the loop of main from any selected index, with *)
(* LEFT and RIGHT only, its next and previous events counted.              *)

InitSelect ==
    /\ selected \in 0..(Len(MISSIONS) - 1)
    /\ start = selected
    /\ net = 0
    /\ turn_calls = <<>>
    /\ turn_rate = 0
    /\ pressed = {}
    /\ fn = <<>>
    /\ pc = "poll"
    /\ ip = 1
    /\ buttons = {}
    /\ heading = 0
    /\ gain = 10
    /\ elapsed = 0
    /\ left = 0
    /\ right = 0
    /\ robot = "stopped"
    /\ motor_c = "stopped"
    /\ motor_d = "stopped"
    /\ light = show_selection(selected)
    /\ exc = "none"
    /\ outcome = "none"
    /\ cmds = << LightCmd(show_selection(selected)) >>
    /\ done = <<>>
    /\ abortOccurred = FALSE
    /\ abortSeen = FALSE
    /\ evts = [b \in EventButtons |-> 0]
    /\ RemoteIdle

NextSelect ==
    \/ \E b \in {"LEFT", "RIGHT"} : Press(b)
    \/ \E b \in {"LEFT", "RIGHT"} : Release(b)
    \/ PollSelect
    \/ RightRelease
    \/ LeftCheck
    \/ LeftRelease

SpecSelect == InitSelect /\ [][NextSelect]_vars

----------------------------------------------------------------------------
(* xbox_controller_drive.py: the controller program on the computer and the *)
(* script it runs on the hub, joined by process.stdin.  A line is modelled  *)
(* by its command word and its two integers; the integers are written in    *)
(* decimal (line 223) and read back by int() (lines 130-131).               *)

MAX_SPEED == 500
TURN_SPEED == 200

\* Joystick axis positions, in hundredths of full deflection
ForwardAxes == {-100, 5, 10, 11}
TurnAxes == {-9, 100}

\* A get_drive_values without lines 67-70
Deadzone_None(a) == a

\* get_drive_values, lines 67-70 (DEADZONE = 0.1)
Deadzone(a) == IF Abs(a) < 10 THEN 0 ELSE a

\* int(x) for x = n / d: truncation towards zero (lines 218-219)
Trunc(n, d) == IF n >= 0 THEN n \div d ELSE -((-n) \div d)

Line(cmd, a, b) == [cmd |-> cmd, a |-> a, b |-> b]
StopLine == Line("STOP", 0, 0)

\* process.terminate() (line 248) ends pybricksdev: of the lines written and
\* not yet read by the hub, any number of the last ones may never arrive.
Delivered(lines) == {SubSeq(lines, 1, k) : k \in 0..Len(lines)}

\* Lines 207-233, and 238-255 when the loop is left: one iteration of the
\* controller loop.  With the A button down STOP is written, the loop is
\* left and the finally block writes STOP again and terminates the process.
ControllerLoop ==
    /\ controller = "loop"
    /\ \E a1 \in ForwardAxes, a2 \in TurnAxes, a \in BOOLEAN, lt \in BOOLEAN :
        LET forward == Deadzone(-a1)
            turn == Deadzone(a2)
            drive_speed == Trunc(forward * MAX_SPEED, 100)
            rate == Trunc(turn * TURN_SPEED, 100)
        IN  /\ stop' = a
            /\ trigger' = lt
            /\ axes' = <<a1, a2>>
            /\ IF a
               THEN /\ written' = << StopLine, StopLine >>
                    /\ stdin' \in Delivered(stdin \o written')
                    /\ controller' = "closed"
                    /\ UNCHANGED <<last_forward, last_turn, lastDrive>>
               ELSE /\ IF \/ Abs(drive_speed - last_forward) > 5
                          \/ Abs(rate - last_turn) > 5
                       THEN /\ written' = << Line("DRIVE", drive_speed, rate) >>
                            /\ lastDrive' = Line("DRIVE", drive_speed, rate)
                            /\ last_forward' = drive_speed
                            /\ last_turn' = rate
                       ELSE /\ written' = <<>>
                            /\ UNCHANGED <<last_forward, last_turn, lastDrive>>
                    /\ stdin' = stdin \o written'
                    /\ UNCHANGED controller
    /\ Len(stdin') <= MaxPipe
    /\ UNCHANGED <<selected, start, net, turn_calls, turn_rate, pressed, fn,
                   pc, ip, buttons, heading, gain, elapsed, left, right,
                   robot, motor_c, motor_d, light, exc, outcome, cmds, done,
                   abortOccurred, abortSeen, evts, stopReceived>>

\* Lines 235-255: Ctrl+C during the loop; the finally block writes STOP and
\* terminates the process.
ControllerInterrupt ==
    /\ controller = "loop"
    /\ written' = << StopLine >>
    /\ stdin' \in Delivered(stdin \o written')
    /\ Len(stdin') <= MaxPipe
    /\ controller' = "closed"
    /\ UNCHANGED <<selected, start, net, turn_calls, turn_rate, pressed, fn,
                   pc, ip, buttons, heading, gain, elapsed, left, right,
                   robot, motor_c, motor_d, light, exc, outcome, cmds, done,
                   abortOccurred, abortSeen, evts, last_forward, last_turn,
                   stop, trigger, axes, lastDrive, stopReceived>>

\* What the hub script does with a line it has read (lines 112-141)
HubStop ==
    << Cmd("robot.stop", 0, 0), Cmd("left.stop", 0, 0), Cmd("right.stop", 0, 0),
       Beep(400, 200), Cmd("robot.stop", 0, 0), Beep(600, 100) >>

\* A hub script without the break of line 120: STOP stops the robot and the
\* loop goes on reading.
HubRead_NoBreak ==
    /\ pc = "remote_loop"
    /\ stdin # <<>>
    /\ stdin' = Tail(stdin)
    /\ LET line == Head(stdin)
       IN  IF line.cmd = "STOP"
           THEN /\ robot' = "stopped" /\ left' = 0 /\ right' = 0
                /\ cmds' = SubSeq(HubStop, 1, 4)
                /\ stopReceived' = TRUE
           ELSE IF line.cmd = "BRAKE"
           THEN /\ robot' = "stopped"
                /\ cmds' = << Cmd("robot.stop", 0, 0) >>
                /\ UNCHANGED <<left, right, stopReceived>>
           ELSE /\ robot' = "drive"
                /\ cmds' = << Cmd("robot.drive", line.a, line.b) >>
                /\ UNCHANGED <<left, right, stopReceived>>
    /\ UNCHANGED <<selected, start, net, turn_calls, turn_rate, pressed, fn,
                   pc, ip, buttons, heading, gain, elapsed, motor_c, motor_d,
                   light, exc, outcome, done, abortOccurred, abortSeen, evts,
                   controller, last_forward, last_turn, stop, trigger,
                   written, axes, lastDrive>>

\* Lines 108-134 and, after the break of line 120, 138-141: the hub script
\* reads one line and acts on it.
HubRead ==
    /\ pc = "remote_loop"
    /\ stdin # <<>>
    /\ stdin' = Tail(stdin)
    /\ LET line == Head(stdin)
       IN  IF line.cmd = "STOP"
           THEN /\ robot' = "stopped" /\ left' = 0 /\ right' = 0
                /\ cmds' = HubStop
                /\ stopReceived' = TRUE
                /\ pc' = "remote_ended"
           ELSE IF line.cmd = "BRAKE"
           THEN /\ robot' = "stopped"
                /\ cmds' = << Cmd("robot.stop", 0, 0) >>
                /\ UNCHANGED <<left, right, stopReceived, pc>>
           ELSE /\ robot' = "drive"
                /\ cmds' = << Cmd("robot.drive", line.a, line.b) >>
                /\ UNCHANGED <<left, right, stopReceived, pc>>
    /\ UNCHANGED <<selected, start, net, turn_calls, turn_rate, pressed, fn,
                   ip, buttons, heading, gain, elapsed, motor_c, motor_d,
                   light, exc, outcome, done, abortOccurred, abortSeen, evts,
                   controller, last_forward, last_turn, stop, trigger,
                   written, axes, lastDrive>>

\* Lines 136-141: the hub script is interrupted while it waits for a line.
HubInterrupt ==
    /\ pc = "remote_loop"
    /\ robot' = "stopped"
    /\ cmds' = << Cmd("robot.stop", 0, 0), Beep(600, 100) >>
    /\ pc' = "remote_ended"
    /\ UNCHANGED <<selected, start, net, turn_calls, turn_rate, pressed, fn,
                   ip, buttons, heading, gain, elapsed, left, right, motor_c,
                   motor_d, light, exc, outcome, done, abortOccurred,
                   abortSeen, evts>>
    /\ UNCHANGED remoteVars

\* Lines 99-105 of the hub script and 202-204 of main: both programs are at
\* the top of their loops.
InitRemote ==
    /\ selected = 0
    /\ start = -1
    /\ net = 0
    /\ turn_calls = <<>>
    /\ turn_rate = 0
    /\ pressed = {}
    /\ fn = <<>>
    /\ pc = "remote_loop"
    /\ ip = 1
    /\ buttons = {}
    /\ heading = 0
    /\ gain = 10
    /\ elapsed = 0
    /\ left = 0
    /\ right = 0
    /\ robot = "stopped"
    /\ motor_c = "stopped"
    /\ motor_d = "stopped"
    /\ light = "WHITE"
    /\ exc = "none"
    /\ outcome = "none"
    /\ cmds = << Beep(1000, 100) >>
    /\ done = <<>>
    /\ abortOccurred = FALSE
    /\ abortSeen = FALSE
    /\ evts = [b \in EventButtons |-> 0]
    /\ controller = "loop"
    /\ stdin = <<>>
    /\ last_forward = 0
    /\ last_turn = 0
    /\ stop = FALSE
    /\ trigger = FALSE
    /\ written = <<>>
    /\ axes = <<0, 0>>
    /\ lastDrive = NoLine
    /\ stopReceived = FALSE

NextRemote ==
    \/ ControllerLoop
    \/ ControllerInterrupt
    \/ HubRead
    \/ HubInterrupt

SpecRemote == InitRemote /\ [][NextRemote]_vars

----------------------------------------------------------------------------
(* Properties *)

IdlePcs == {"poll", "right_release", "left_check", "left_release"}
InMove == pc \in {"straight", "run_angle", "gyro_poll", "gyro_body"}
Failures == {"drive base failure", "motor failure"}
RunEnded == pc = "bt_release"

AllStopped ==
    /\ robot = "stopped"
    /\ left = 0
    /\ right = 0
    /\ motor_c = "stopped"
    /\ motor_d = "stopped"

\* Commands that move the robot or read its heading
MovesOrReads ==
    {"left.run", "right.run", "robot.straight", "robot.settings",
     "c.run_angle", "d.run_angle", "imu.heading", "imu.reset_heading"}

\* C1 (abort safety): a run during which CENTER was down at some point, and
\* in which no collaborator failed, ends Aborted with the drive base, both
\* drive motors and both attachment motors stopped.
C1_AbortSafety ==
    (RunEnded /\ abortOccurred /\ exc \notin Failures)
        => (outcome = "Aborted" /\ AllStopped)

\* C2: once a poll inside gyro_turn's loop has seen CENTER, the step that saw
\* it has commanded the drive base, the left, right, C and D motors to stop,
\* in that order and before anything else, and has commanded no move and no
\* sensor read; all five are stopped; the run has ended Aborted; the mission
\* stands at that turn, the statements after it never dispatched.
C2_AbortInTurn ==
    abortSeen =>
        /\ RunEnded
        /\ outcome = "Aborted"
        /\ AllStopped
        /\ Len(cmds) >= 5
        /\ SubSeq(cmds, 1, 5) = SubSeq(StopAll, 1, 5)
        /\ \A i \in 1..Len(cmds) : cmds[i][1] \notin MovesOrReads
        /\ ip <= Len(fn)
        /\ fn[ip].op = "turn"
        /\ done = [i \in 1..ip |-> i]

\* C2 witness: the abort was seen in mission_1's first turn, whose next
\* statement, an actuator move, was never dispatched.
C2_Witness ==
    /\ abortSeen
    /\ fn = mission_1
    /\ ip < Len(fn)
    /\ fn[ip + 1].op = "motor_c"
    /\ motor_c = "stopped"

\* C3: whatever ends the run, the exception stays inside the launcher: while
\* the mission runs and when it has ended the selected index is the launched
\* one; at the end of the run the outcome is one of the three and the light
\* shows the selected mission again, as it does all the time the loop is
\* idle; the program never ends on an exception of a mission.
C3_Contained ==
    /\ (Running \/ RunEnded) => fn = MISSIONS[selected + 1]
    /\ RunEnded => /\ outcome \in {"Completed", "Aborted", "Failed"}
                   /\ outcome = Outcome(exc)
                   /\ light = show_selection(selected)
    /\ pc \in IdlePcs => (light = show_selection(selected) /\ outcome = "none")
    /\ pc = "crashed" => (outcome = "none" /\ fn = <<>>)

\* C3 (the launcher contains every outcome): C3_Contained always holds, and
\* from the end of a run the loop goes to the idle poll and nowhere else,
\* with the index and the light it had.
C3_LauncherContains ==
    /\ []C3_Contained
    /\ [][RunEnded => \/ pc' = "bt_release"
                      \/ /\ pc' = "poll"
                         /\ selected' = selected
                         /\ light' = light]_vars

\* C3 witness: a run of mission_2 ended by a collaborator's failure.
C3_Witness ==
    /\ RunEnded
    /\ outcome = "Failed"
    /\ selected = 2
    /\ light = "YELLOW"

\* C4: from an idle state the selector loop only goes to an idle state or
\* into a run: CENTER never takes it anywhere else.
C4_IdleStaysIdle ==
    [][(pc \in IdlePcs) => (pc' \in IdlePcs \cup {"step"})]_vars

\* C5: the statements of a run are dispatched in their listed order, one at
\* a time, the next only after the one before has returned; a statement
\* that raises ends the run as Failed with every statement before it run
\* and none after it dispatched.
C5_InOrder ==
    /\ done = [i \in 1..Len(done) |-> i]
    /\ pc = "step" => Len(done) = ip - 1
    /\ InMove => (Len(done) = ip /\ ip <= Len(fn))
    /\ exc \in Failures => /\ RunEnded
                           /\ outcome = "Failed"
                           /\ Len(done) = ip
                           /\ ip <= Len(fn)
    /\ outcome = "Completed" => Len(done) = Len(fn)

\* C5 witness: a statement failed after others had run and before the last.
C5_Witness ==
    /\ RunEnded
    /\ outcome = "Failed"
    /\ Len(done) >= 3
    /\ ip < Len(fn)

\* C6 (convergence): when gyro_turn has returned normally the heading is
\* within the settle tolerance of the target.
C6_Convergence ==
    Returned => Abs(heading - Deg(fn[1].x)) <= Deg(SettleTol)

\* C7 (bounded time): gyro_turn is never in its loop beyond the settle
\* timeout.
C7_BoundedTime ==
    pc \in {"gyro_poll", "gyro_body"} => elapsed <= SettleTimeoutMs

\* C8: when the run has ended, whatever ended it, no drive or attachment
\* motor is still commanded to run.
C8_StoppedOnReturn == RunEnded => AllStopped

\* C9: an abort input that occurred during the run is seen by the next
\* abort poll: no poll of gyro_turn's loop passes after CENTER was down.
C9_AbortLatched == ~(pc = "gyro_body" /\ abortOccurred)

\* C10 as amended: a press of LEFT, RIGHT or BLUETOOTH, however long it is
\* held, produces at most one event.
C10_AtMostOneEvent == \A b \in EventButtons : evts[b] <= 1

\* C10 witness: BLUETOOTH is still held after the run it launched has ended,
\* and a RIGHT press before it moved the selection by one.
C10_Witness ==
    /\ RunEnded
    /\ "BLUETOOTH" \in buttons
    /\ evts["BLUETOOTH"] = 1
    /\ selected = 1

\* C10 as stated: every press produces exactly one event: when the button
\* goes up its press has produced one (or the sample in use still holds it).
C10_ExactlyOneEvent ==
    [][\A b \in EventButtons :
          (b \in buttons /\ b \notin buttons') => (evts[b] = 1 \/ b \in pressed)]_vars

\* C11: the selected index is always in [0, mission_count); a next event
\* moves it up by one and from the last index to 0; a previous event moves
\* it down by one and from 0 to the last index; nothing else moves it.
C11_Wraps ==
    /\ [](selected \in 0..(mission_count - 1))
    /\ [][/\ (pc = "poll" /\ pc' = "right_release")
              => selected' = IF selected = mission_count - 1
                             THEN 0 ELSE selected + 1
          /\ (pc = "left_check" /\ pc' = "left_release")
              => selected' = IF selected = 0
                             THEN mission_count - 1 ELSE selected - 1
          /\ selected' # selected
              => pc' \in {"right_release", "left_release"}]_vars

\* C11 witness: a previous event at index 0 has yielded the last index.
C11_Witness ==
    /\ pc = "left_release"
    /\ selected = mission_count - 1
    /\ evts["LEFT"] = 1
    /\ cmds = << LightCmd("BLACK") >>

\* C12 (selection round trip): when as many next events as previous events
\* have happened since the selector stood at start, in whatever order, the
\* selected index is start again.
C12_RoundTrip == (start >= 0 /\ net = 0) => selected = start

\* C12 witness: from the last index a next event wrapped to 0 and a previous
\* event has come back.
C12_Witness ==
    /\ pc = "left_release"
    /\ start = mission_count - 1
    /\ net = 0
    /\ selected = start
    /\ evts["LEFT"] = 1

\* C13 (bulk phase): when gyro_turn has returned it has called robot.turn,
\* the first time with bulk_fraction (0.97) of the target, and the heading
\* is within the tolerance of the target.
C13_BulkPhase ==
    Returned => /\ Len(turn_calls) >= 1
                /\ 100 * turn_calls[1] = 97 * fn[1].x
                /\ Abs(heading - Deg(fn[1].x)) <= Deg(SettleTol)

\* C15: when gyro_turn has returned, the drive base's turn_rate is 140 and
\* the first robot.turn was called with the target less 3 degrees of its
\* magnitude; on a robot whose gain is 1.2 robot.turn was called at least
\* twice.
C15_MediumMargin ==
    Returned => /\ turn_rate = 140
                /\ Len(turn_calls) >= 1
                /\ turn_calls[1] = IF fn[1].x > 0 THEN fn[1].x - 3
                                    ELSE fn[1].x + 3
                /\ gain = 12 => Len(turn_calls) >= 2

\* The feedback commands (tones and light) among the commands of a step
IsFeedback(c) == c[1] = "beep" \/ c[1] \in Range(MISSION_COLORS) \cup {"WHITE"}
Feedback(seq) == SelectSeq(seq, IsFeedback)

\* What the operator hears and sees at the end of a run, by outcome: line 319
\* (Completed), lines 47 and 322 (Aborted), line 322 (Failed), each followed
\* by the light of lines 326-327.
Signal(o) ==
    LET lights == << LightCmd(MISSION_COLORS[selected + 1]),
                     LightCmd(MISSION_COLORS[selected + 1]) >>
    IN  IF o = "Completed" THEN << Beep(600, 150) >> \o lights
        ELSE IF o = "Aborted" THEN << Beep(200, 300), Beep(200, 500) >> \o lights
        ELSE << Beep(200, 500) >> \o lights

\* C14: the feedback commands of the step that ends a run are the pattern of
\* the run's outcome and of no other outcome.
C14_DistinctFeedback ==
    RunEnded =>
        \A o \in {"Completed", "Aborted", "Failed"} :
            (Feedback(cmds) = Signal(o)) <=> (o = outcome)

\* C14 witness: an aborted run of mission_4 has sounded its two low tones.
C14_Witness ==
    /\ RunEnded
    /\ outcome = "Aborted"
    /\ selected = 4
    /\ Feedback(cmds) = << Beep(200, 300), Beep(200, 500),
                           LightCmd("BLUE"), LightCmd("BLUE") >>

\* C16 (A button = emergency stop): a sample of the A button as pressed has
\* made the controller program write STOP and nothing else and leave its
\* loop; once it has left its loop it writes nothing more; a STOP read by
\* the hub script has stopped the drive base and both motors before anything
\* else and ended its loop; after that the hub script commands nothing.
C16_EmergencyStop ==
    /\ [](stop => /\ controller = "closed"
                  /\ written = << StopLine, StopLine >>)
    /\ [][controller = "closed"
            => /\ written' = written
               /\ \/ stdin' = stdin
                  \/ stdin # <<>> /\ stdin' = Tail(stdin)]_vars
    /\ [](stopReceived => /\ pc = "remote_ended"
                          /\ robot = "stopped" /\ left = 0 /\ right = 0
                          /\ SubSeq(cmds, 1, 3) = SubSeq(HubStop, 1, 3)
                          /\ \A i \in 1..Len(cmds) : cmds[i][1] # "robot.drive")
    /\ [][pc = "remote_ended" => UNCHANGED <<pc, robot, left, right, cmds>>]_vars

\* C16 witness: the robot was driven at full speed, the A button was sampled
\* and the hub has read the STOP.
C16_Witness ==
    /\ stop
    /\ stopReceived
    /\ last_forward = MAX_SPEED
    /\ pc = "remote_ended"
    /\ robot = "stopped"

\* C17 (left trigger = brake): an iteration of the controller loop during
\* which the left trigger is pressed writes a BRAKE line.
C17_TriggerBrakes ==
    (controller = "loop" /\ trigger)
        => \E i \in 1..Len(written) : written[i].cmd = "BRAKE"

\* The last command of the latest step whose name is in names ("none" when
\* there is none)
LastOf(names) ==
    LET sel == {i \in 1..Len(cmds) : cmds[i][1] \in names}
    IN  IF sel = {} THEN "none"
        ELSE cmds[CHOOSE i \in sel : \A j \in sel : j <= i][1]

\* gyro_turn has been left by the RuntimeError of emergency_stop_check
AbortedTurn == RunEnded /\ exc = "Emergency stop"

\* C18: gyro_turn goes from its call into its loop and from its loop to its
\* end only; when it has returned after the heading test, or has been left
\* by the emergency stop, both drive motors are stopped and the last command
\* to each of them was stop.
C18_TerminalStops ==
    /\ []((Returned \/ AbortedTurn)
            => /\ left = 0
               /\ right = 0
               /\ LastOf({"left.run", "left.stop"}) = "left.stop"
               /\ LastOf({"right.run", "right.stop"}) = "right.stop")
    /\ [][/\ pc' \in {"gyro_poll", "gyro_body"}
             => pc \in {"step", "gyro_poll", "gyro_body"}
          /\ pc \in {"gyro_poll", "gyro_body"}
             => pc' \in {"gyro_poll", "gyro_body", "step", "bt_release"}]_vars

\* C18 witness: gyro_turn(-55, slow_turn=True) has turned the robot and has
\* returned.
C18_Witness ==
    /\ Returned
    /\ fn[1] = Turn(-55, 1, 1)
    /\ heading # 0
    /\ left = 0
    /\ right = 0
    /\ cmds[2] = Cmd("left.stop", 0, 0)

\* C19: gyro_turn enters its loop with the heading reset to zero, and the
\* value it is about to compare with the target, the reading normalized by
\* lines 89-90, lies in (-180, 180].
C19_Normalized ==
    /\ (pc = "gyro_poll" /\ elapsed = 0 /\ cmds # <<>>) => heading = 0
    /\ pc = "gyro_body" => /\ Normalize(heading) > -Deg(180)
                           /\ Normalize(heading) <= Deg(180)

\* C20: drive_cm(distance, speed, accel) configures the drive base with 10
\* times the speed and 10 times the acceleration and then calls
\* robot.straight once with 10 times the distance, sign included (fn holds
\* the distance in half centimetres); when robot.straight returns the drive
\* base is stopped and the mission goes on; when it fails nothing more is sent
\* to the drive base and the failure reaches the launcher as it is.
C20_DriveCm ==
    /\ [][(pc = "step" /\ pc' = "straight")
            => /\ fn[ip].op = "drive"
               /\ Len(cmds') = 2
               /\ cmds'[1] = Cmd("robot.settings", 10 * fn[ip].y, 10 * fn[ip].z)
               /\ cmds'[2][1] = "robot.straight"
               /\ 2 * cmds'[2][2] = 10 * fn[ip].x]_vars
    /\ [][pc = "straight"
            => \/ pc' = "straight" /\ cmds' = cmds
               \/ /\ pc' = "step"
                  /\ ip' = ip + 1
                  /\ robot' = "stopped"
                  /\ cmds' = << Cmd("robot.stop", 0, 0) >>
                  /\ exc' = "none"
               \/ /\ pc' = "bt_release"
                  /\ exc' = "drive base failure"
                  /\ outcome' = "Failed"
                  /\ \A i \in 1..Len(cmds') :
                        cmds'[i][1] \notin {"robot.straight", "robot.settings",
                                            "robot.stop"}]_vars

\* C20 witness: mission_0's drive_cm(-4, 30, 50) has called
\* robot.straight(-40) at 300 mm/s and 500 mm/s2.
C20_Witness ==
    /\ pc = "straight"
    /\ fn = mission_0
    /\ cmds = << Cmd("robot.settings", 300, 500), Cmd("robot.straight", -40, 0) >>

\* C21: when gyro_turn has returned normally, the heading it sampled last,
\* less 360 degrees when above 180, is at least the target in magnitude; a
\* gyro_turn by 0 runs no motor: it goes from its first comparison to its
\* return, and nothing but the heading read and the two stops is commanded.
C21_ReturnsWhenReached ==
    /\ [](Returned
            => LET h == IF heading > 18000 THEN heading - 36000 ELSE heading
               IN  Abs(h) >= 100 * Abs(fn[1].x))
    /\ []((Len(fn) = 1 /\ fn[1].x = 0)
            => /\ left = 0
               /\ right = 0
               /\ \A i \in 1..Len(cmds) :
                     cmds[i][1] \notin {"left.run", "right.run"})
    /\ [][(pc = "gyro_body" /\ Len(fn) = 1 /\ fn[1].x = 0)
            => pc' = "step"]_vars

\* C21 witness: gyro_turn(0) has returned from its first comparison.
C21_Witness ==
    /\ Returned
    /\ fn[1].x = 0
    /\ heading = 0
    /\ cmds = << Cmd("imu.heading", 0, 0), Cmd("left.stop", 0, 0),
                 Cmd("right.stop", 0, 0) >>

\* C22: a poll of the selector loop that samples BLUETOOTH, with or without
\* LEFT and RIGHT, launches the mission that was selected and leaves the
\* selected index as it was; while a mission runs and until the loop polls
\* again the selected index does not change.
C22_StartFirst ==
    /\ [][(pc = "poll" /\ pc' # "poll"
           /\ "BLUETOOTH" \in buttons /\ "CENTER" \notin buttons)
            => /\ pc' = "step"
               /\ selected' = selected
               /\ fn' = MISSIONS[selected + 1]
               /\ ip' = 1]_vars
    /\ [][(Running \/ RunEnded) => selected' = selected]_vars
    /\ [](Running => fn = MISSIONS[selected + 1])

\* C22 witness: mission_2 has just been launched with BLUETOOTH, LEFT and
\* RIGHT all down, the presses of LEFT and RIGHT having produced no event.
C22_Witness ==
    /\ pc = "step"
    /\ ip = 1
    /\ selected = 2
    /\ fn = mission_2
    /\ {"BLUETOOTH", "LEFT", "RIGHT"} \subseteq buttons
    /\ evts["BLUETOOTH"] = 1
    /\ evts["LEFT"] = 0
    /\ evts["RIGHT"] = 0

\* Both axes of the latest sample are inside the deadzone
Centred == Abs(axes[1]) < 10 /\ Abs(axes[2]) < 10

\* C23 as stated: whenever the latest sample has both axes inside the
\* deadzone, the last DRIVE line written, if there is one, is DRIVE 0 0.
C23_CentredMeansZero ==
    (Centred /\ lastDrive # NoLine) => lastDrive = Line("DRIVE", 0, 0)

\* C23, for samples with the A button up: whenever the latest sample has
\* both axes inside the deadzone and the A button up, the last DRIVE line
\* written, if there is one, is DRIVE 0 0.
C23_CentredSendsZero ==
    (Centred /\ ~stop /\ lastDrive # NoLine) => lastDrive = Line("DRIVE", 0, 0)

\* C23 witness: after a DRIVE with the stick deflected, a sample inside the
\* deadzone (axis 1 at 0.05) has made the loop write DRIVE 0 0.
C23_Witness ==
    /\ controller = "loop"
    /\ axes = <<5, -9>>
    /\ ~stop
    /\ written = << Line("DRIVE", 0, 0) >>
    /\ lastDrive = Line("DRIVE", 0, 0)
    /\ last_forward = 0
    /\ last_turn = 0

============================================================================
